---- MODULE Spec2Model ----
(***************************************************************************)
(* A model of GitDiffSubcmd.generate_report and GitDiffSubcmd.build_pattern *)
(* (src/subcmds/git_diff_subcmd.py).  One behaviour is one invocation of    *)
(* generate_report: the arguments are drawn in Init, the answers of the     *)
(* collaborators (GitProject.rev_parse, rev_list, log, FormattedFile.open   *)
(* and the writers) are drawn when the code calls them.                     *)
(*                                                                         *)
(* Python strings are sequences of one-character strings, so that len(),    *)
(* find(), split(), strip(), slicing and %-formatting are computed.         *)
(***************************************************************************)
EXTENDS Integers, Sequences, FiniteSets, TLC

\* ------------------------------------------------------------------ bounds

\* the largest number of positional arguments of an invocation
MaxArgs == 3
\* the largest number of root ancestors (parentless commits) of a repository
MaxRoots == 2
\* the commits of a repository are 1..NCommits, a larger number being newer
NCommits == 3
\* the length of a commit hash
ShaLen == 22

\* the index at which the HTML backend splits a sha1 (sha1[:20], sha1[20:])
SplitAt == 20

\* ----------------------------------------------------------------- strings

Digits == <<"0", "1", "2", "3", "4", "5", "6", "7", "8", "9">>

Digit(n) == Digits[(n % 10) + 1]

DigitVal(ch) == IF \E d \in 0..9 : Digits[d + 1] = ch
                THEN CHOOSE d \in 0..9 : Digits[d + 1] = ch
                ELSE 0

\* str.find(ch): the 0-based index of the first ch, or -1
Find(s, ch) ==
    IF \E i \in 1..Len(s) : s[i] = ch
    THEN (CHOOSE i \in 1..Len(s) : s[i] = ch /\ \A j \in 1..(i - 1) : s[j] # ch) - 1
    ELSE -1

\* str.strip(chars): chars removed from both ends
RECURSIVE LStrip(_, _)
LStrip(s, chars) ==
    IF s # <<>> /\ Head(s) \in chars THEN LStrip(Tail(s), chars) ELSE s

RECURSIVE RStrip(_, _)
RStrip(s, chars) ==
    IF s # <<>> /\ s[Len(s)] \in chars
    THEN RStrip(SubSeq(s, 1, Len(s) - 1), chars)
    ELSE s

Strip(s, chars) == RStrip(LStrip(s, chars), chars)

Whitespace == {" ", "\n", "\t"}

\* str.split(sep) for a one-character separator: never an empty list
RECURSIVE Split(_, _)
Split(s, sep) ==
    LET k == Find(s, sep)
    IN  IF k < 0 THEN <<s>>
        ELSE <<SubSeq(s, 1, k)>> \o Split(SubSeq(s, k + 2, Len(s)), sep)

\* "\n".join(lines)
RECURSIVE Join(_)
Join(lines) ==
    IF lines = <<>> THEN <<>>
    ELSE IF Len(lines) = 1 THEN lines[1]
    ELSE lines[1] \o <<"\n">> \o Join(Tail(lines))

\* ------------------------------------------------- the repository (inputs)

\* the hash of commit n (n < 100): ShaLen characters, different for different n
Sha(n) == [i \in 1..ShaLen |-> IF i = 1 THEN Digit(n \div 10) ELSE Digit(n + i)]

Commits == 1..NCommits

\* what `git log --format=%ae|%ce|%s sha^..sha` prints for commit n
AuthorOf(n) == IF n % 2 = 1 THEN <<"x", "y", "z">> ELSE <<"x">>
CommitterOf(n) == IF n % 2 = 1 THEN <<"a">> ELSE <<"b", "b">>
SubjectOf(n) == IF n % 2 = 1 THEN <<>> ELSE <<"f", "i", "x">>

CommitOfSha(sha) ==
    IF \E n \in Commits : Sha(n) = sha
    THEN CHOOSE n \in Commits : Sha(n) = sha
    ELSE 0

FieldOutput(item, sha) ==
    LET n == CommitOfSha(sha)
        v == IF item = "%ae" THEN AuthorOf(n)
             ELSE IF item = "%ce" THEN CommitterOf(n)
             ELSE SubjectOf(n)
    IN  v \o <<"\n">>

\* the commits of S in log order, newest first
RECURSIVE Desc(_)
Desc(S) ==
    IF S = {} THEN <<>>
    ELSE LET m == CHOOSE x \in S : \A y \in S : y <= x
         IN  <<m>> \o Desc(S \ {m})

\* the hash lists `git log --format="%H ref..eref` may print.  The roots of the
\* repository are its commits 1..k and every commit is an ancestor of the end
\* commit: <root>..<end> is every commit but that root; <begin>..<end> of two
\* given references is any set of commits
HashLists(ref, twoRefs) ==
    IF twoRefs
    THEN { Desc(S) : S \in SUBSET Commits }
    ELSE { Desc(Commits \ {CommitOfSha(ref)}) }

HashListOutput(l) == Join([i \in 1..Len(l) |-> <<"\"">> \o Sha(l[i])])

\* what rev_list --max-parents=0 prints for a repository of k roots
RootsOutput(k) == Join([i \in 1..k |-> Sha(i)])

\* the field queries of a root fail: <root>^ names no commit
FieldQueryFails(sha, k) == CommitOfSha(sha) <= k

HEAD == <<"H", "E", "A", "D">>
ArgName(i) == <<"r", Digit(i)>>

\* project.remote, the name of the remote
ProjectRemote == <<"o">>

\* the hash rev_parse prints for a reference it knows
RevParseSha(ref) ==
    Sha(20 + DigitVal(ref[Len(ref)]) + (IF Find(ref, "/") >= 0 THEN 10 ELSE 0))

\* ----------------------------------------------------------- build_pattern

EMAIL == <<"e", "m", "a", "i", "l">>

\* GitDiffSubcmd.build_pattern: the list handed to Pattern(), <<>> for Pattern()
build_pattern(pats) ==
    IF Len(pats) > 0
    THEN [i \in 1..Len(pats) |->
            IF Find(pats[i], ":") > 0
            THEN pats[i]
            ELSE EMAIL \o <<":">> \o pats[i]]
    ELSE <<>>

\* topics.Pattern: truth value of a Pattern (it holds at least one expression)
PatternTruthy(pat) == Len(pat) > 0

\* topics.Pattern: the field and the value of one "field:value" expression
PatField(e) == SubSeq(e, 1, Find(e, ":"))
PatValue(e) == SubSeq(e, Find(e, ":") + 2, Len(e))

\* topics.Pattern.match(aliases, value): no expression, or any expression of an
\* accepted field with this value
PatternMatch(pat, aliases, value) ==
    \/ pat = <<>>
    \/ \E i \in 1..Len(pat) :
          /\ Find(pat[i], ":") >= 0
          /\ PatField(pat[i]) \in aliases
          /\ PatValue(pat[i]) = value

\* the aliases 'e,email' of the committer email
EmailAliases == {<<"e">>, EMAIL}

\* ------------------------------------------------------------- _secure_sha

\* _secure_sha without its raise: the second answer is returned as it is
SecureShaNoRaise(ret1, sha1, ret2, sha2) ==
    IF ret1 = 0 THEN [raised |-> FALSE, sha |-> sha1]
    ELSE [raised |-> FALSE, sha |-> sha2]

\* _secure_sha, given the two rev_parse answers: the sha1, or RevisionError
SecureSha(ret1, sha1, ret2, sha2) ==
    IF ret1 = 0 THEN [raised |-> FALSE, sha |-> sha1]
    ELSE IF ret2 = 0 THEN [raised |-> FALSE, sha |-> sha2]
    ELSE [raised |-> TRUE, sha |-> <<>>]

\* '%s/%s' % (project.remote, refs)
RemoteRef(ref) == ProjectRemote \o <<"/">> \o ref

\* ------------------------------------------------------------ report files

REPORT_TEXT == "report.txt"
REPORT_HTML == "report.html"
FILTER_TEXT == "filter.txt"
FILTER_HTML == "filter.html"

DocNames == {REPORT_TEXT, REPORT_HTML, FILTER_TEXT, FILTER_HTML}

TABLE_CSS == <<"sha1", "email", "email", "title">>

\* the text report opened for every format given
WantsTextAnyFormat(fmt) == fmt # ""

WantsText(fmt) == fmt # "" /\ fmt \in {"all", "text"}
WantsHtml(fmt) == fmt # "" /\ fmt \in {"all", "html"}

\* the label of a section: refs
Label(ref, eref, bs, as) ==
    IF Len(bs) > 0 /\ Len(as) > 1 THEN ref \o <<".", ".">> \o eref ELSE eref

\* the range the hash-list query is run on: '%s..%s' % (ref, erefs)
RangeExpr(ref, eref) == ref \o <<".", ".">> \o eref

\* the range a field query is run on: '%s^..%s' % (sha1, sha1)
CommitExpr(sha) == sha \o <<"^", ".", ".">> \o sha

\* column: the longest string of each of the four columns of the given rows
RECURSIVE Column(_)
Column(rows) ==
    IF rows = <<>> THEN <<0, 0, 0, 0>>
    ELSE LET c == Column(SubSeq(rows, 1, Len(rows) - 1))
             r == rows[Len(rows)]
         IN  [k \in 1..4 |-> IF Len(r[k]) > c[k] THEN Len(r[k]) ELSE c[k]]

\* the filter applied to the author instead of the committer
RECURSIVE FilterRowsByAuthor(_, _)
FilterRowsByAuthor(rows, pat) ==
    IF rows = <<>> THEN <<>>
    ELSE (IF PatternMatch(pat, EmailAliases, Head(rows)[2])
          THEN <<Head(rows)>> ELSE <<>>) \o FilterRowsByAuthor(Tail(rows), pat)

\* the rows of a filtered table: the records whose committer matches
RECURSIVE FilterRows(_, _)
FilterRows(rows, pat) ==
    IF rows = <<>> THEN <<>>
    ELSE (IF PatternMatch(pat, EmailAliases, Head(rows)[3])
          THEN <<Head(rows)>> ELSE <<>>) \o FilterRows(Tail(rows), pat)

\* FormattedFile.item(text, link, tag), and a plain string cell
Str(text) == [kind |-> "str", text |-> text, link |-> <<>>, tag |-> "", parts |-> <<>>]
Item(text, link, tag) ==
    [kind |-> "item", text |-> text, link |-> link, tag |-> tag, parts |-> <<>>]
Items(a, b, tag) ==
    [kind |-> "items", text |-> <<>>, link |-> <<>>, tag |-> tag, parts |-> <<a, b>>]

MailTo(addr) == <<"m", "a", "i", "l", "t", "o", ":">> \o addr

GitilesUrl(rem, nm, sha) ==
    rem \o <<"/", "p", "l", "u", "g", "i", "n", "s", "/", "g", "i", "t", "i", "l", "e", "s", "/">>
        \o nm \o <<"/", "+", "/">> \o sha \o <<"^", "!">>

\* one row of report.html
HtmlRow(rec, rem, nm, gt) ==
    LET sha1 == rec[1]
        hauthor == Item(rec[2], MailTo(rec[2]), "")
        hcommitter == Item(rec[3], MailTo(rec[3]), "")
        query == rem \o <<"#", "/", "q", "/">> \o sha1
    IN  IF rem = <<>>
        THEN [cells |-> <<Str(sha1), hauthor, hcommitter, Str(rec[4])>>,
              td_csses |-> TABLE_CSS]
        ELSE IF gt /\ nm # <<>>
        THEN [cells |-> <<Items(Item(SubSeq(sha1, 1, SplitAt), query, ""),
                                Item(SubSeq(sha1, SplitAt + 1, Len(sha1)),
                                     GitilesUrl(rem, nm, sha1), ""),
                                "pre"),
                          hauthor, hcommitter, Str(rec[4])>>,
              td_csses |-> TABLE_CSS]
        ELSE [cells |-> <<Item(sha1, query, "pre"), hauthor, hcommitter, Str(rec[4])>>,
              td_csses |-> TABLE_CSS]

\* one row of filter.html
HtmlRowP(rec, rem, nm, gt) ==
    LET sha1 == rec[1]
        hauthor == Item(rec[2], MailTo(rec[2]), "")
        hcommitter == Item(rec[3], MailTo(rec[3]), "")
        query == rem \o <<"#", "q", ",">> \o sha1
    IN  IF rem = <<>>
        THEN [cells |-> <<Str(sha1), hauthor, hcommitter, Str(rec[4])>>,
              td_csses |-> <<>>]
        ELSE IF gt /\ nm # <<>>
        THEN [cells |-> <<Items(Item(SubSeq(sha1, 1, SplitAt), query, ""),
                                Item(SubSeq(sha1, SplitAt + 1, Len(sha1)),
                                     GitilesUrl(rem, nm, sha1), ""),
                                "pre"),
                          hauthor, hcommitter, Str(rec[4])>>,
              td_csses |-> <<>>]
        ELSE [cells |-> <<Item(sha1, query, "pre"), hauthor, hcommitter, Str(rec[4])>>,
              td_csses |-> <<>>]

\* ------------------------------------------------------------------- state

VARIABLES
    args, format, patterns, remote, name, gitiles,  \* the arguments of generate_report
    pattern, brefs, erefs, logs,                     \* its locals
    idx,        \* the number of entries of brefs the loop has taken
    refs,       \* the label of the current range
    sha1s,      \* the lines of the current hash list not yet looked at
    docs,       \* the four documents: state, sections written, close() calls
    dirExists,  \* whether the output directory exists
    pc, error,  \* the place in generate_report, and the exception raised
    calls,      \* the collaborator calls made so far, in order
    failed,     \* the queries that answered with a nonzero status, in order
    nroots,     \* the repository: the number of its root commits
    queried     \* per range taken: the range queried and the records it yielded

inputs == <<args, format, patterns, remote, name, gitiles>>
locals == <<pattern, brefs, erefs, logs, idx, refs, sha1s>>
vars == <<inputs, locals, docs, dirExists, pc, error, calls, failed, queried, nroots>>

Formats == {"", "text", "html", "all", "pdf"}

\* the pattern tokens of an invocation
PatternInputs ==
    { <<>>,
      << <<"a">> >>,
      << <<":", "a">> >>,
      << <<"e", ":", "b", "b">> >> }

\* remote, name and gitiles of an invocation: no remote; a remote with a project
\* name, with and without gitiles; a remote without a project name
Options ==
    { <<<<>>, <<"p">>, TRUE>>,
      <<<<"h">>, <<"p">>, TRUE>>,
      <<<<"h">>, <<"p">>, FALSE>>,
      <<<<"h">>, <<>>, TRUE>> }

Init ==
    /\ args \in { [i \in 1..n |-> ArgName(i)] : n \in 0..MaxArgs }
    /\ format \in Formats
    /\ patterns \in PatternInputs
    /\ \E o \in Options : remote = o[1] /\ name = o[2] /\ gitiles = o[3]
    /\ nroots \in 1..MaxRoots
    /\ pattern = <<>>
    /\ brefs = <<>>
    /\ erefs = <<>>
    /\ logs = <<>>
    /\ idx = 0
    /\ refs = <<>>
    /\ sha1s = <<>>
    /\ docs = [d \in DocNames |-> [state |-> "none", sections |-> <<>>, closes |-> 0]]
    /\ dirExists = FALSE
    /\ pc = "build"
    /\ error = "None"
    /\ calls = <<>>
    /\ failed = <<>>
    /\ queried = <<>>

ftext == docs[REPORT_TEXT].state # "none"
ftextp == docs[FILTER_TEXT].state # "none"
fhtml == docs[REPORT_HTML].state # "none"
fhtmlp == docs[FILTER_HTML].state # "none"

Raise(e) == pc' = "raised" /\ error' = e

Call(op, arg, ret) == [op |-> op, arg |-> arg, ret |-> ret]

\* the rev_parse calls of one _secure_sha(ref) with the given answers
SecureShaCalls(ref, ret1, ret2) ==
    IF ret1 = 0
    THEN <<Call("rev_parse", ref, ret1)>>
    ELSE <<Call("rev_parse", ref, ret1), Call("rev_parse", RemoteRef(ref), ret2)>>

\* line 141: pattern = GitDiffSubcmd.build_pattern(patterns)
BuildPattern ==
    /\ pc = "build"
    /\ pattern' = build_pattern(patterns)
    /\ pc' = "resolve_end"
    /\ UNCHANGED <<inputs, brefs, erefs, logs, idx, refs, sha1s, docs, dirExists,
                   error, calls, failed, queried, nroots>>

\* the reference resolved as erefs: args[0] or 'HEAD' (line 148), args[1] (line 153)
EndRef == IF Len(args) < 2 THEN (IF Len(args) > 0 THEN args[1] ELSE HEAD) ELSE args[2]

\* lines 148 and 153: erefs = _secure_sha(project, ...)
ResolveEnd ==
    /\ pc = "resolve_end"
    /\ \E ret1, ret2 \in {0, 1} :
          LET r == SecureSha(ret1, RevParseSha(EndRef), ret2, RevParseSha(RemoteRef(EndRef)))
          IN  /\ calls' = calls \o SecureShaCalls(EndRef, ret1, ret2)
              /\ IF r.raised
                 THEN Raise("RevisionError") /\ UNCHANGED erefs
                 ELSE /\ erefs' = r.sha
                      /\ pc' = IF Len(args) < 2 THEN "rev_list" ELSE "resolve_begin"
                      /\ UNCHANGED error
    /\ UNCHANGED <<inputs, pattern, brefs, logs, idx, refs, sha1s, docs, dirExists,
                   failed, queried, nroots>>

\* line 154: brefs.append(_secure_sha(project, args[0]))
ResolveBegin ==
    /\ pc = "resolve_begin"
    /\ \E ret1, ret2 \in {0, 1} :
          LET r == SecureSha(ret1, RevParseSha(args[1]), ret2, RevParseSha(RemoteRef(args[1])))
          IN  /\ calls' = calls \o SecureShaCalls(args[1], ret1, ret2)
              /\ IF r.raised
                 THEN Raise("RevisionError") /\ UNCHANGED brefs
                 ELSE /\ brefs' = Append(brefs, r.sha)
                      /\ pc' = "makedirs"
                      /\ UNCHANGED error
    /\ UNCHANGED <<inputs, pattern, erefs, logs, idx, refs, sha1s, docs, dirExists,
                   failed, queried, nroots>>

\* lines 149-151: ret, head = project.rev_list('--max-parents=0', erefs)
RevList ==
    /\ pc = "rev_list"
    /\ \/ /\ brefs' = brefs \o Split(RootsOutput(nroots), "\n")
          /\ calls' = Append(calls, Call("rev_list", erefs, 0))
          /\ UNCHANGED failed
       \/ /\ calls' = Append(calls, Call("rev_list", erefs, 1))
          /\ failed' = Append(failed, "rev_list")
          /\ UNCHANGED brefs
    /\ pc' = "makedirs"
    /\ UNCHANGED <<inputs, pattern, erefs, logs, idx, refs, sha1s, docs, dirExists,
                   error, queried, nroots>>

\* lines 160-161: if not os.path.exists(output): os.makedirs(output)
MakeDirs ==
    /\ pc = "makedirs"
    /\ dirExists' = TRUE
    /\ calls' = IF dirExists THEN calls ELSE Append(calls, Call("makedirs", <<>>, 0))
    /\ pc' = "open_text"
    /\ UNCHANGED <<inputs, locals, docs, error, failed, queried, nroots>>

Opened(d) == [docs EXCEPT ![d].state = "open"]

\* lines 165-168: ftext = FormattedFile.open(report.txt)
OpenText ==
    /\ pc = "open_text"
    /\ \/ /\ WantsText(format)
          /\ docs' = Opened(REPORT_TEXT)
          /\ calls' = Append(calls, Call("open", <<>>, 0))
          /\ pc' = "open_textp"
          /\ UNCHANGED error
       \/ /\ WantsText(format)
          /\ Raise("IOError")
          /\ UNCHANGED <<docs, calls>>
       \/ /\ ~WantsText(format)
          /\ pc' = "open_html"
          /\ UNCHANGED <<docs, calls, error>>
    /\ UNCHANGED <<inputs, locals, dirExists, failed, queried, nroots>>

\* lines 170-173: if pattern: ftextp = FormattedFile.open(filter.txt)
OpenTextP ==
    /\ pc = "open_textp"
    /\ \/ /\ PatternTruthy(pattern)
          /\ docs' = Opened(FILTER_TEXT)
          /\ calls' = Append(calls, Call("open", <<>>, 0))
          /\ pc' = "open_html"
          /\ UNCHANGED error
       \/ /\ PatternTruthy(pattern)
          /\ Raise("IOError")
          /\ UNCHANGED <<docs, calls>>
       \/ /\ ~PatternTruthy(pattern)
          /\ pc' = "open_html"
          /\ UNCHANGED <<docs, calls, error>>
    /\ UNCHANGED <<inputs, locals, dirExists, failed, queried, nroots>>

\* lines 175-178: fhtml = FormattedFile.open(report.html)
OpenHtml ==
    /\ pc = "open_html"
    /\ \/ /\ WantsHtml(format)
          /\ docs' = Opened(REPORT_HTML)
          /\ calls' = Append(calls, Call("open", <<>>, 0))
          /\ pc' = "open_htmlp"
          /\ UNCHANGED error
       \/ /\ WantsHtml(format)
          /\ Raise("IOError")
          /\ UNCHANGED <<docs, calls>>
       \/ /\ ~WantsHtml(format)
          /\ pc' = "loop"
          /\ UNCHANGED <<docs, calls, error>>
    /\ UNCHANGED <<inputs, locals, dirExists, failed, queried, nroots>>

\* lines 179-182: if pattern: fhtmlp = FormattedFile.open(filter.html)
OpenHtmlP ==
    /\ pc = "open_htmlp"
    /\ \/ /\ PatternTruthy(pattern)
          /\ docs' = Opened(FILTER_HTML)
          /\ calls' = Append(calls, Call("open", <<>>, 0))
          /\ pc' = "loop"
          /\ UNCHANGED error
       \/ /\ PatternTruthy(pattern)
          /\ Raise("IOError")
          /\ UNCHANGED <<docs, calls>>
       \/ /\ ~PatternTruthy(pattern)
          /\ pc' = "loop"
          /\ UNCHANGED <<docs, calls, error>>
    /\ UNCHANGED <<inputs, locals, dirExists, failed, queried, nroots>>

\* ---------------------------------------------------------------- the loop

\* what a failed field query prints
FailOutput == <<>>

\* val.strip('"').strip()
FieldValue(out) == Strip(Strip(out, {"\""}), Whitespace)

\* lines 197-202: the record of one commit, given the field queries that failed
Values(sha1, bad) ==
    <<sha1>> \o
    [k \in 1..3 |->
        LET item == <<"%ae", "%ce", "%s">>[k]
        IN  FieldValue(IF item \in bad THEN FailOutput ELSE FieldOutput(item, sha1))]

\* the calls of lines 199-200 for one commit
FieldCalls(sha1, bad) ==
    [k \in 1..3 |->
        LET item == <<"%ae", "%ce", "%s">>[k]
        IN  Call("log", CommitExpr(sha1), IF item \in bad THEN 1 ELSE 0)]

FailedItems(bad) == SelectSeq(<<"%ae", "%ce", "%s">>, LAMBDA item : item \in bad)

\* lines 186-191: the next ref of brefs, its label, and its hash-list query
Query ==
    /\ pc = "loop"
    /\ idx < Len(brefs)
    /\ LET ref == brefs[idx + 1]
           expr == RangeExpr(ref, erefs)
       IN  /\ idx' = idx + 1
           /\ refs' = Label(ref, erefs, brefs, args)
           /\ \/ \E l \in HashLists(ref, Len(args) > 1) :
                    /\ sha1s' = Split(HashListOutput(l), "\n")
                    /\ calls' = Append(calls, Call("log", expr, 0))
                    /\ queried' = Append(queried, [expr |-> expr, ret |-> 0, recs |-> <<>>])
                    /\ pc' = "extract"
                    /\ UNCHANGED <<failed, error>>
              \/ /\ sha1s' = <<>>
                 /\ calls' = Append(calls, Call("log", expr, 1))
                 /\ failed' = Append(failed, "hashlist")
                 /\ queried' = Append(queried, [expr |-> expr, ret |-> 1, recs |-> <<>>])
                 /\ pc' = "extract"
                 /\ UNCHANGED error
              \/ /\ Raise("QueryError")
                 /\ calls' = Append(calls, Call("log", expr, 2))
                 /\ UNCHANGED <<sha1s, failed, queried, nroots>>
    /\ UNCHANGED <<inputs, pattern, brefs, erefs, logs, docs, dirExists, nroots>>

\* lines 192-202: one line of the hash list
Extract ==
    /\ pc = "extract"
    /\ \/ /\ sha1s = <<>>
          /\ pc' = "text"
          /\ UNCHANGED <<sha1s, logs, calls, failed, queried, nroots>>
       \/ /\ sha1s # <<>>
          /\ Strip(Head(sha1s), {"\""}) = <<>>
          /\ sha1s' = Tail(sha1s)
          /\ UNCHANGED <<pc, logs, calls, failed, queried, nroots>>
       \/ /\ sha1s # <<>>
          /\ Strip(Head(sha1s), {"\""}) # <<>>
          /\ LET sha1 == Strip(Head(sha1s), {"\""})
                 bad == IF FieldQueryFails(sha1, nroots)
                        THEN {"%ae", "%ce", "%s"} ELSE {}
                 values == Values(sha1, bad)
             IN     /\ logs' = Append(logs, values)
                    /\ calls' = calls \o FieldCalls(sha1, bad)
                    /\ failed' = failed \o FailedItems(bad)
                    /\ queried' = [queried EXCEPT ![Len(queried)].recs = Append(@, values)]
          /\ sha1s' = Tail(sha1s)
          /\ UNCHANGED pc
    /\ UNCHANGED <<inputs, pattern, brefs, erefs, idx, refs, docs, dirExists, error, nroots>>

\* lines 205-215: the section of report.txt
TextSection(label, recs) ==
    [label |-> label, column |-> Column(recs), rows |-> recs]

\* lines 218-222: the section of filter.txt
TextSectionP(label, recs, pat) ==
    [label |-> label, column |-> Column(recs), rows |-> FilterRows(recs, pat)]

\* lines 225-253: the section of report.html
HtmlSection(label, recs, rem, nm, gt) ==
    [label |-> label, column |-> <<>>,
     rows |-> [i \in 1..Len(recs) |-> HtmlRow(recs[i], rem, nm, gt)]]

\* lines 256-283: the section of filter.html
HtmlSectionP(label, recs, pat, rem, nm, gt) ==
    LET sel == FilterRows(recs, pat)
    IN  [label |-> label, column |-> <<>>,
         rows |-> [i \in 1..Len(sel) |-> HtmlRowP(sel[i], rem, nm, gt)]]

Written(d, section) == [docs EXCEPT ![d].sections = Append(@, section)]

\* lines 204-215
RenderText ==
    /\ pc = "text"
    /\ \/ /\ ftext
          /\ docs' = Written(REPORT_TEXT, TextSection(refs, logs))
          /\ pc' = IF ftextp THEN "textp" ELSE "html"
          /\ UNCHANGED error
       \/ /\ ftext
          /\ Raise("IOError")
          /\ UNCHANGED docs
       \/ /\ ~ftext
          /\ pc' = "html"
          /\ UNCHANGED <<docs, error>>
    /\ UNCHANGED <<inputs, locals, dirExists, calls, failed, queried, nroots>>

\* lines 217-222
RenderTextP ==
    /\ pc = "textp"
    /\ \/ /\ docs' = Written(FILTER_TEXT, TextSectionP(refs, logs, pattern))
          /\ pc' = "html"
          /\ UNCHANGED error
       \/ /\ Raise("IOError")
          /\ UNCHANGED docs
    /\ UNCHANGED <<inputs, locals, dirExists, calls, failed, queried, nroots>>

\* lines 224-253
RenderHtml ==
    /\ pc = "html"
    /\ \/ /\ fhtml
          /\ docs' = Written(REPORT_HTML, HtmlSection(refs, logs, remote, name, gitiles))
          /\ pc' = IF fhtmlp THEN "htmlp" ELSE "loop"
          /\ UNCHANGED error
       \/ /\ fhtml
          /\ Raise("IOError")
          /\ UNCHANGED docs
       \/ /\ ~fhtml
          /\ pc' = "loop"
          /\ UNCHANGED <<docs, error>>
    /\ UNCHANGED <<inputs, locals, dirExists, calls, failed, queried, nroots>>

\* lines 255-283
RenderHtmlP ==
    /\ pc = "htmlp"
    /\ \/ /\ docs' = Written(FILTER_HTML,
                             HtmlSectionP(refs, logs, pattern, remote, name, gitiles))
          /\ pc' = "loop"
          /\ UNCHANGED error
       \/ /\ Raise("IOError")
          /\ UNCHANGED docs
    /\ UNCHANGED <<inputs, locals, dirExists, calls, failed, queried, nroots>>

\* lines 285-294: close every document that was opened, and return logs
CloseAll ==
    /\ pc = "loop"
    /\ idx >= Len(brefs)
    /\ docs' = [d \in DocNames |->
                   IF docs[d].state # "none"
                   THEN [docs[d] EXCEPT !.state = "closed", !.closes = @ + 1]
                   ELSE docs[d]]
    /\ pc' = "done"
    /\ UNCHANGED <<inputs, locals, dirExists, error, calls, failed, queried, nroots>>

Next ==
    \/ BuildPattern
    \/ ResolveEnd
    \/ ResolveBegin
    \/ RevList
    \/ MakeDirs
    \/ OpenText
    \/ OpenTextP
    \/ OpenHtml
    \/ OpenHtmlP
    \/ Query
    \/ Extract
    \/ RenderText
    \/ RenderTextP
    \/ RenderHtml
    \/ RenderHtmlP
    \/ CloseAll

Spec == Init /\ [][Next]_vars

\* ------------------------------------------------------------ reading back

\* the text of a cell: of both spans when the cell is split
CellText(c) == IF c.kind = "items" THEN c.parts[1].text \o c.parts[2].text ELSE c.text

\* the spans of a cell, each with its link target
CellLinks(c) ==
    IF c.kind = "items"
    THEN [k \in 1..Len(c.parts) |-> <<c.parts[k].text, c.parts[k].link>>]
    ELSE <<<<c.text, c.link>>>>

\* the commit record behind a row of a document
RowRecord(d, row) ==
    IF d \in {REPORT_TEXT, FILTER_TEXT}
    THEN row
    ELSE <<CellText(row.cells[1]), row.cells[2].text, row.cells[3].text,
           row.cells[4].text>>

\* the commit records of section i of document d, in row order
SectionRecords(d, i) ==
    LET rows == docs[d].sections[i].rows
    IN  [k \in 1..Len(rows) |-> RowRecord(d, rows[k])]

FullOf(d) == IF d = FILTER_TEXT THEN REPORT_TEXT ELSE REPORT_HTML

IsOpened(d) == docs[d].state # "none"

\* ------------------------------------------------------------------ claims

\* C1: every section of a full report holds exactly the records extracted by
\* the log query of its own range, in log order (none of another range, and
\* none when the query yielded no commit).
C1_SectionHoldsOwnRecords ==
    \A d \in {REPORT_TEXT, REPORT_HTML} :
        \A i \in 1..Len(docs[d].sections) :
            SectionRecords(d, i) = queried[i].recs

\* the references _secure_sha is called with, in the order of the calls
IsRevParse(c) == c.op = "rev_parse"
IsEndOk(c) == IsRevParse(c) /\ c.arg \in {EndRef, RemoteRef(EndRef)} /\ c.ret = 0
IsBeginCall(c) ==
    Len(args) > 1 /\ IsRevParse(c) /\ c.arg \in {args[1], RemoteRef(args[1])}
BothFailed ==
    \E i \in 1..Len(calls) :
        IsRevParse(calls[i]) /\ calls[i].ret # 0 /\ Find(calls[i].arg, "/") >= 0

\* C2: a reference is tried as given and, only after that failed, as
\* <remote>/<ref>; when both fail generate_report raises RevisionError with no
\* directory created, no document opened and no log query issued; the end
\* reference is resolved before the begin reference and before any range query.
C2_ResolveBeforeAnything ==
    /\ \A i \in 1..Len(calls) :
          IsRevParse(calls[i]) =>
             IF Find(calls[i].arg, "/") >= 0
             THEN /\ i > 1
                  /\ IsRevParse(calls[i - 1])
                  /\ calls[i - 1].ret # 0
                  /\ calls[i].arg = RemoteRef(calls[i - 1].arg)
             ELSE /\ calls[i].arg \in {EndRef} \cup (IF Len(args) > 1 THEN {args[1]} ELSE {})
                  /\ calls[i].ret # 0 =>
                        /\ i < Len(calls)
                        /\ calls[i + 1].op = "rev_parse"
                        /\ calls[i + 1].arg = RemoteRef(calls[i].arg)
    /\ BothFailed =>
          /\ pc = "raised"
          /\ error = "RevisionError"
          /\ ~dirExists
          /\ \A d \in DocNames : ~IsOpened(d)
          /\ \A i \in 1..Len(calls) : calls[i].op \notin {"makedirs", "open", "log"}
    /\ \A j \in 1..Len(calls) :
          (IsBeginCall(calls[j]) \/ calls[j].op \in {"rev_list", "log", "makedirs", "open"})
             => \E i \in 1..(j - 1) : IsEndOk(calls[i])

\* C2 witness: two references, the end one resolved through the remote name, the
\* begin one failing both ways, and RevisionError raised
C2_Witness ==
    /\ Len(args) = 2
    /\ pc = "raised"
    /\ error = "RevisionError"
    /\ Len(calls) = 4
    /\ calls[2] = Call("rev_parse", RemoteRef(args[2]), 0)
    /\ calls[4] = Call("rev_parse", RemoteRef(args[1]), 1)

\* C3: every section of a filtered document carries the label of the same
\* section of the full document and holds exactly the records of that section
\* whose committer email matches the pattern, in the same order.
C3_FilteredIsMatchingSubsequence ==
    \A d \in {FILTER_TEXT, FILTER_HTML} :
        /\ Len(docs[d].sections) <= Len(docs[FullOf(d)].sections)
        /\ \A i \in 1..Len(docs[d].sections) :
              /\ docs[d].sections[i].label = docs[FullOf(d)].sections[i].label
              /\ SectionRecords(d, i) =
                    SelectSeq(SectionRecords(FullOf(d), i),
                              LAMBDA r : PatternMatch(pattern, EmailAliases, r[3]))

\* C3 witness: a filtered section that kept some rows of the full section and
\* dropped others, in both formats
C3_Witness ==
    /\ pc = "done"
    /\ \A d \in {FILTER_TEXT, FILTER_HTML} :
          /\ Len(docs[d].sections) = 2
          /\ Len(docs[d].sections[2].rows) > 0
          /\ Len(docs[d].sections[2].rows) < Len(docs[FullOf(d)].sections[2].rows)

OpenPhaseOver == pc \in {"loop", "extract", "text", "textp", "html", "htmlp", "done"}

\* C4: which documents are opened is fixed by the format and the pattern
\* tokens: report.txt iff format is text or all, report.html iff html or all,
\* a filter file iff its full report is opened and a pattern token was given.
C4_DocumentsOpened ==
    /\ IsOpened(REPORT_TEXT) => format \in {"text", "all"}
    /\ IsOpened(REPORT_HTML) => format \in {"html", "all"}
    /\ IsOpened(FILTER_TEXT) => IsOpened(REPORT_TEXT) /\ Len(patterns) > 0
    /\ IsOpened(FILTER_HTML) => IsOpened(REPORT_HTML) /\ Len(patterns) > 0
    /\ OpenPhaseOver =>
          /\ IsOpened(REPORT_TEXT) <=> format \in {"text", "all"}
          /\ IsOpened(REPORT_HTML) <=> format \in {"html", "all"}
          /\ IsOpened(FILTER_TEXT) <=> (IsOpened(REPORT_TEXT) /\ Len(patterns) > 0)
          /\ IsOpened(FILTER_HTML) <=> (IsOpened(REPORT_HTML) /\ Len(patterns) > 0)

\* C4 witness: a completed run with format html and a pattern token, which
\* opened the two HTML documents and neither text document
C4_Witness ==
    /\ pc = "done"
    /\ format = "html"
    /\ Len(patterns) > 0
    /\ IsOpened(REPORT_HTML) /\ IsOpened(FILTER_HTML)
    /\ ~IsOpened(REPORT_TEXT) /\ ~IsOpened(FILTER_TEXT)

\* the longest string of column k of the rows
TrueWidth(rows, k) ==
    IF rows = <<>> THEN 0
    ELSE CHOOSE w \in { Len(rows[i][k]) : i \in 1..Len(rows) } :
            \A i \in 1..Len(rows) : Len(rows[i][k]) <= w

\* C5: in every section of report.txt and of filter.txt the column widths are
\* the longest string of each column over the rows written in that section.
C5_WidthsAreTrueMaximum ==
    \A d \in {REPORT_TEXT, FILTER_TEXT} :
        \A i \in 1..Len(docs[d].sections) :
            docs[d].sections[i].column =
                [k \in 1..4 |-> TrueWidth(docs[d].sections[i].rows, k)]

\* the sha1 cell by the one rule: its spans and their link targets
Sha1Links(sha1) ==
    LET query == remote \o <<"#", "/", "q", "/">> \o sha1
    IN  IF remote = <<>> THEN <<<<sha1, <<>>>>>>
        ELSE IF gitiles /\ name # <<>>
        THEN << <<SubSeq(sha1, 1, SplitAt), query>>,
                <<SubSeq(sha1, SplitAt + 1, Len(sha1)), GitilesUrl(remote, name, sha1)>> >>
        ELSE << <<sha1, query>> >>

\* C6: in report.html and in filter.html alike the sha1 cell of a commit is
\* unlinked without a remote, two spans linked to <remote>#/q/<sha1> and to the
\* gitiles URL with a remote, a name and gitiles, and one link to
\* <remote>#/q/<sha1> otherwise.
C6_Sha1CellByOneRule ==
    \A d \in {REPORT_HTML, FILTER_HTML} :
        \A i \in 1..Len(docs[d].sections) :
            \A k \in 1..Len(docs[d].sections[i].rows) :
                LET cell == docs[d].sections[i].rows[k].cells[1]
                IN  CellLinks(cell) = Sha1Links(CellText(cell))

\* C7: on every exit, normal or by an error, every document that was opened
\* has been closed, exactly once.
C7_ClosedOnEveryExit ==
    pc \in {"done", "raised"} =>
        \A d \in DocNames :
            IsOpened(d) => docs[d].state = "closed" /\ docs[d].closes = 1

\* C8: a run that completes normally had no query answer with a nonzero status
\* other than hash-list queries of ranges.
C8_OnlyHashListFailureTolerated ==
    pc = "done" => \A i \in 1..Len(failed) : failed[i] = "hashlist"

\* C9: the label of every section is the range its log query was run on.
C9_LabelIsQueriedRange ==
    \A d \in DocNames :
        \A i \in 1..Len(docs[d].sections) :
            docs[d].sections[i].label = queried[i].expr

\* the Pattern of the claim: a token holding ':' anywhere is taken verbatim
VerbatimPattern(pats) ==
    [i \in 1..Len(pats) |->
        IF \E k \in 1..Len(pats[i]) : pats[i][k] = ":"
        THEN pats[i]
        ELSE EMAIL \o <<":">> \o pats[i]]

\* C10: build_pattern hands every token that contains ':' to the Pattern
\* verbatim, wherever the ':' stands, and every other token as email:<token>.
C10_ColonTokenVerbatim ==
    pc # "build" => pattern = VerbatimPattern(patterns)

====
